---- MODULE Spec2Model ----
(***************************************************************************)
(* Model of the Snypso transcript extractor (src/app.py and                *)
(* src/app_vibbli.py): the transcript cleaner clean_lines, the paragraph   *)
(* reducer strip_timestamps, the pipeline save_transcript, the batch loop, *)
(* the password gate check_password and the search panel of app_vibbli.py. *)
(*                                                                         *)
(* A Python str is modelled as a sequence of one-character strings, so     *)
(* that trimming, containment, joining and the timestamp pattern are       *)
(* computed character by character as the code computes them.              *)
(***************************************************************************)
EXTENDS Integers, Sequences, FiniteSets, TLC

VARIABLES
    in_lines,     \* clean_lines: the argument `lines`
    out_lines,    \* clean_lines(in_lines), once computed
    out_twice,    \* clean_lines(out_lines), once computed
    cstage,       \* "input" | "cleaned" | "recleaned"
    auth_ok,      \* st.session_state.auth_ok (FALSE while unset)
    secret,       \* st.secrets.get("APP_PASSWORD", None)
    files,        \* text files on disk: absolute path -> content
    vtts,         \* subtitle track files on disk: set of absolute paths
    pc,           \* "idle" between script runs | "batch" inside the batch loop
    entries,      \* Run batch: entries
    idx,          \* Run batch: position of the for loop in entries (1-based)
    batch_ts,     \* Run batch: the batch_ts checkbox
    results,      \* Run batch: results
    calls,        \* number of save_transcript calls so far
    last_call,    \* the last save_transcript call: arguments and outcome
    last_run,     \* the last script run: what was pressed and what it showed
    sel_state,    \* search panel: ids r with the checkbox sel_<r> ticked
    search_results, \* search panel: `results` of the last script run
    selected,     \* search panel: `selected` of the last script run
    extract_shown, \* search panel: the Extract button was rendered
    panel_msgs,   \* search panel: what the last script run reported
    ui            \* search panel: the widget that started the last script run

cvars == <<in_lines, out_lines, out_twice, cstage>>

pvars == <<auth_ok, secret, files, vtts, pc, entries, idx, batch_ts, results,
           calls, last_call, last_run>>

svars == <<sel_state, search_results, selected, extract_shown, panel_msgs, ui>>

vars == <<cvars, pvars, svars>>

----------------------------------------------------------------------------
(* Bounds of the model *)

\* Longest list of lines handed to clean_lines.
MaxLines == 3

\* Most save_transcript calls in one behaviour (the output directory only grows).
MaxCalls == 2

----------------------------------------------------------------------------
(* Python str primitives *)

Last(s) == s[Len(s)]

Front(s) == SubSeq(s, 1, Len(s) - 1)

\* str.strip() with no argument removes these (the ASCII ones a caption holds).
IsSpace(c) == c \in {" ", "\t", "\n"}

RECURSIVE LStrip(_)
LStrip(s) == IF s = <<>> THEN s
             ELSE IF IsSpace(Head(s)) THEN LStrip(Tail(s)) ELSE s

RECURSIVE RStrip(_)
RStrip(s) == IF s = <<>> THEN s
             ELSE IF IsSpace(Last(s)) THEN RStrip(Front(s)) ELSE s

\* s.strip()
strip(s) == RStrip(LStrip(s))

\* `sub in s` for two str
Contains(s, sub) ==
    \E i \in 0..(Len(s) - Len(sub)) : SubSeq(s, i + 1, i + Len(sub)) = sub

\* sep.join(parts)
RECURSIVE Join(_, _)
Join(parts, sep) ==
    IF parts = <<>> THEN <<>>
    ELSE IF Len(parts) = 1 THEN parts[1]
    ELSE parts[1] \o sep \o Join(Tail(parts), sep)

----------------------------------------------------------------------------
(* clean_lines *)

\* [ln.strip() for ln in lines if ln.strip()]
RECURSIVE StripNonBlank(_)
StripNonBlank(lines) ==
    IF lines = <<>> THEN <<>>
    ELSE LET t == strip(Head(lines))
         IN  IF t = <<>> THEN StripNonBlank(Tail(lines))
             ELSE <<t>> \o StripNonBlank(Tail(lines))

\* [k for k, _ in groupby(xs)]: one key per run of equal neighbours
RECURSIVE GroupKeys(_)
GroupKeys(xs) ==
    IF Len(xs) <= 1 THEN xs
    ELSE IF xs[1] = xs[2] THEN GroupKeys(Tail(xs))
    ELSE <<xs[1]>> \o GroupKeys(Tail(xs))

\* pass 1 of clean_lines
exact(lines) == GroupKeys(StripNonBlank(lines))

\* A wider window: the candidate is dropped when any accumulated line covers it.
clean_step_any_window(final, ln) ==
    IF final = <<>> THEN <<ln>>
    ELSE IF \E j \in 1..Len(final) : Contains(final[j], ln) THEN final
    ELSE IF Contains(ln, Last(final)) THEN [final EXCEPT ![Len(final)] = ln]
    ELSE Append(final, ln)

\* A replacement that puts the longer line first instead of in place.
clean_step_reorder(final, ln) ==
    IF final = <<>> THEN <<ln>>
    ELSE IF ln = Last(final) THEN final
    ELSE IF Contains(Last(final), ln) THEN final
    ELSE IF Contains(ln, Last(final)) THEN <<ln>> \o Front(final)
    ELSE Append(final, ln)

\* one iteration of the pass-2 loop: final, after candidate ln
clean_step(final, ln) ==
    IF final = <<>> THEN <<ln>>
    ELSE LET prev == Last(final)
         IN  IF ln = prev THEN final
             ELSE IF Contains(prev, ln) THEN final
             ELSE IF Contains(ln, prev) THEN [final EXCEPT ![Len(final)] = ln]
             ELSE Append(final, ln)

\* pass 2 of clean_lines over the pass-1 list xs
RECURSIVE pass2(_)
pass2(xs) == IF xs = <<>> THEN <<>>
             ELSE clean_step(pass2(Front(xs)), Last(xs))

clean_lines(lines) == pass2(exact(lines))

----------------------------------------------------------------------------
(* Paths: os.path on POSIX *)

CWD == <<"/", "a", "p", "p">>                       \* the process's directory

\* os.path.join(a, b) for a relative b
path_join(a, b) == a \o <<"/">> \o b

\* OUTPUT_DIR = os.path.join(os.path.dirname(__file__), "transcripts")
OUTPUT_DIR == path_join(CWD, <<"t", "r", "a", "n", "s", "c", "r", "i", "p", "t", "s">>)

\* os.path.abspath(p)
abspath(p) == IF p # <<>> /\ Head(p) = "/" THEN p ELSE path_join(CWD, p)

\* s.rfind(c), 1-based, 0 when absent
rfind(s, c) ==
    LET I == { i \in 1..Len(s) : s[i] = c }
    IN  IF I = {} THEN 0 ELSE CHOOSE i \in I : \A j \in I : j <= i

\* os.path.basename(p)
basename(p) == SubSeq(p, rfind(p, "/") + 1, Len(p))

\* os.path.splitext(p)[0]: the last dot splits, unless only dots precede it
splitext_root(p) ==
    LET sep == rfind(p, "/")
        dot == rfind(p, ".")
    IN  IF dot > sep /\ \E k \in (sep + 1)..(dot - 1) : p[k] # "."
        THEN SubSeq(p, 1, dot - 1)
        ELSE p

\* s[-n:]
LastN(s, n) == IF Len(s) <= n THEN s ELSE SubSeq(s, Len(s) - n + 1, Len(s))

\* the literals of the file names
TRANSCRIPT == <<"t", "r", "a", "n", "s", "c", "r", "i", "p", "t">>

DOT_TXT == <<".", "t", "x", "t">>

PARAGRAPHS_TXT == <<"_", "p", "a", "r", "a", "g", "r", "a", "p", "h", "s">> \o DOT_TXT

EN_VTT == <<".", "e", "n", ".", "v", "t", "t">>

DE_VTT == <<".", "d", "e", ".", "v", "t", "t">>

\* base_name = os.path.splitext(os.path.basename(base_name))[0] or "transcript"
normalize_base(base_name) ==
    LET stem == splitext_root(basename(base_name))
    IN  IF stem = <<>> THEN TRANSCRIPT ELSE stem

\* txt_path = os.path.join(OUTPUT_DIR, f"{base_name}.txt")
txt_path_of(base) == path_join(OUTPUT_DIR, base \o DOT_TXT)

\* para_path = os.path.join(OUTPUT_DIR, f"{base_name}_paragraphs.txt")
para_path_of(base) == path_join(OUTPUT_DIR, base \o PARAGRAPHS_TXT)

----------------------------------------------------------------------------
(* Exceptions *)

NoErr == [type |-> "none", msg |-> ""]

DownloadError == [type |-> "DownloadError", msg |-> "Unable to download video subtitles"]

NoVttError == [type |-> "FileNotFoundError",
               msg |-> "No .vtt subtitle files were downloaded for this video."]

MalformedFileError == [type |-> "MalformedFileError", msg |-> "The file does not have a valid format"]

EmptyError == [type |-> "ValueError", msg |-> "Subtitles file was empty after parsing."]

WriteError == [type |-> "OSError", msg |-> "No space left on device"]

MoveError == [type |-> "Error", msg |-> "Cannot move file"]

----------------------------------------------------------------------------
(* vtt_to_lines *)

\* s.replace(old, new) for one-character old and new
replace(s, old, new) == [i \in 1..Len(s) |-> IF s[i] = old THEN new ELSE s[i]]

\* s.split(sep)[0] for a one-character sep
split_first(s, sep) ==
    LET I == { i \in 1..Len(s) : s[i] = sep }
    IN  IF I = {} THEN s
        ELSE SubSeq(s, 1, (CHOOSE i \in I : \A j \in I : i <= j) - 1)

\* The prefix carries the start time without its seconds.
RECURSIVE cue_lines_minutes(_, _)
cue_lines_minutes(cues, include_timestamps) ==
    IF cues = <<>> THEN <<>>
    ELSE LET cue == Head(cues)
             text == replace(strip(cue.text), "\n", " ")
             hms == split_first(cue.start, ".")
             rest == cue_lines_minutes(Tail(cues), include_timestamps)
         IN  IF text = <<>> THEN rest
             ELSE IF include_timestamps
                  THEN << <<"[">> \o SubSeq(hms, 1, Len(hms) - 3) \o <<"]", " ">> \o text >> \o rest
                  ELSE <<text>> \o rest

\* the body of the for loop over the cues
RECURSIVE cue_lines(_, _)
cue_lines(cues, include_timestamps) ==
    IF cues = <<>> THEN <<>>
    ELSE LET cue == Head(cues)
             text == replace(strip(cue.text), "\n", " ")
             rest == cue_lines(Tail(cues), include_timestamps)
         IN  IF text = <<>> THEN rest
             ELSE IF include_timestamps
                  THEN << <<"[">> \o split_first(cue.start, ".") \o <<"]", " ">> \o text >> \o rest
                  ELSE <<text>> \o rest

\* An empty list is returned instead of the error.
vtt_to_lines_no_raise(cues, include_timestamps) ==
    [raised |-> NoErr, lines |-> cue_lines(cues, include_timestamps)]

vtt_to_lines(cues, include_timestamps) ==
    LET lines == cue_lines(cues, include_timestamps)
    IN  IF lines = <<>> THEN [raised |-> EmptyError, lines |-> <<>>]
        ELSE [raised |-> NoErr, lines |-> lines]

----------------------------------------------------------------------------
(* strip_timestamps and the paragraph *)

Digits == {"0", "1", "2", "3", "4", "5", "6", "7", "8", "9"}

\* ^\[\d{2}:\d{2}:\d{2}\] matches at the start of s
HasMarker(s) ==
    /\ Len(s) >= 10
    /\ s[1] = "[" /\ s[2] \in Digits /\ s[3] \in Digits
    /\ s[4] = ":" /\ s[5] \in Digits /\ s[6] \in Digits
    /\ s[7] = ":" /\ s[8] \in Digits /\ s[9] \in Digits
    /\ s[10] = "]"

\* re.sub(r"^\[\d{2}:\d{2}:\d{2}\]\s*", "", line).strip()
strip_timestamps(line) ==
    IF HasMarker(line)
    THEN strip(LStrip(SubSeq(line, 11, Len(line))))
    ELSE strip(line)

\* no_ts = [strip_timestamps(ln) for ln in cleaned if ln.strip()]
RECURSIVE no_ts(_)
no_ts(cleaned) ==
    IF cleaned = <<>> THEN <<>>
    ELSE IF strip(Head(cleaned)) = <<>> THEN no_ts(Tail(cleaned))
    ELSE <<strip_timestamps(Head(cleaned))>> \o no_ts(Tail(cleaned))

\* " ".join(no_ts)
paragraph(cleaned) == Join(no_ts(cleaned), <<" ">>)

----------------------------------------------------------------------------
(* The world outside: videos, their tracks, and what can fail in one run *)

Rep(c, n) == [i \in 1..n |-> c]

\* the length of a video id, as the batch loop assumes it (item[-11:])
VidLen == 11

idA == Rep("a", VidLen)

idE == <<"e", "1">>

idF == <<"f", "2">>

\* cue.start values
t1 == <<"0", "0", ":", "0", "0", ":", "0", "1", ".", "5", "0", "0">>

t2 == <<"0", "0", ":", "0", "0", ":", "0", "2", ".", "0", "0", "0">>

t3 == <<"0", "0", ":", "0", "1", ":", "0", "2", ".", "3", "4", "5">>

\* the same caption twice, in different seconds
TrackHi == << [start |-> t1, text |-> <<"h", "i">>],
              [start |-> t2, text |-> <<"h", "i">>] >>

\* only whitespace in every cue
TrackBlank == << [start |-> t1, text |-> <<" ">>],
                 [start |-> t2, text |-> <<"\n", " ">>] >>

\* a caption whose whole text looks like a timestamp marker, and a two-line cue
TrackMarker == << [start |-> t1, text |-> <<"a">>],
                  [start |-> t2, text |-> <<"[", "0", "0", ":", "0", "0", ":", "0", "5", "]">>],
                  [start |-> t3, text |-> <<"b", "\n", "c", " ">>] >>

\* references: a watch URL, two URLs of other sites that end in the same 11
\* characters (one of a video whose captions are blank), and one that names
\* no video
refA == <<"v", "=">> \o idA

refE == <<"e", "/">> \o idA

refF == <<"f", "/">> \o idA

refBad == <<"x">>

\* what yt-dlp finds for a reference: the video's id and its English track
World ==
    { [ref |-> refA, id |-> idA, track |-> TrackHi],
      [ref |-> refE, id |-> idE, track |-> TrackMarker],
      [ref |-> refF, id |-> idF, track |-> TrackBlank] }

NoVideo == [ref |-> <<>>, id |-> <<>>, track |-> <<>>]

\* ydl.extract_info(video_id_or_url, download=True)
video_of(url) ==
    IF \E w \in World : w.ref = url
    THEN CHOOSE w \in World : w.ref = url
    ELSE NoVideo

\* One run's environment: the first operation that fails, if any (a run stops
\* at its first failure), and the subtitle files yt-dlp leaves.
Faults == {"none", "fetch", "parse", "txt_open", "txt_write",
           "para_open", "para_write", "move"}

----------------------------------------------------------------------------
(* download_vtt *)

\* sorted(glob.glob(f"{vid}*.vtt")) after yt-dlp ran
candidates(vid, subs) ==
    IF subs = "none" THEN <<>>
    ELSE IF subs = "en" THEN <<vid \o EN_VTT>>
    ELSE <<vid \o DE_VTT, vid \o EN_VTT>>

\* the for loop preferring ".en", then candidates[0]
pick_vtt(cands) ==
    LET en == { i \in 1..Len(cands) : Contains(cands[i], <<".", "e", "n">>) }
    IN  IF en = {} THEN cands[1]
        ELSE cands[CHOOSE i \in en : \A j \in en : i <= j]

download_vtt(vt, url, env) ==
    LET info == video_of(url)
        vid == info.id
    IN  IF env.fault = "fetch" \/ info = NoVideo
        THEN [raised |-> DownloadError, vtts |-> vt, vtt_path |-> <<>>]
        ELSE LET cands == candidates(vid, env.subs)
                 written == vt \cup { abspath(cands[i]) : i \in 1..Len(cands) }
             IN  IF cands = <<>>
                 THEN [raised |-> NoVttError, vtts |-> written, vtt_path |-> <<>>]
                 ELSE [raised |-> NoErr, vtts |-> written, vtt_path |-> pick_vtt(cands)]

----------------------------------------------------------------------------
(* save_transcript *)

\* fs with the file at path holding content
put(fs, path, content) ==
    [q \in DOMAIN fs \cup {path} |-> IF q = path THEN content ELSE fs[q]]

\* with open(path, "w") as f: f.write(content)
\* open fails: nothing changes; the write fails: the file is left truncated
write_file(fs, path, content, open_fails, write_fails) ==
    IF open_fails THEN [raised |-> WriteError, files |-> fs]
    ELSE IF write_fails THEN [raised |-> WriteError, files |-> put(fs, path, <<>>)]
    ELSE [raised |-> NoErr, files |-> put(fs, path, content)]

\* The move with no try/except around it.
relocate_unguarded(vt, vtt_path, move_fails) ==
    LET vtt_out == path_join(OUTPUT_DIR, basename(vtt_path))
    IN  IF abspath(vtt_path) # abspath(vtt_out)
        THEN IF move_fails
             THEN [raised |-> MoveError, vtts |-> vt, vtt_out |-> vtt_out, move |-> "failed"]
             ELSE [raised |-> NoErr,
                   vtts |-> (vt \ {abspath(vtt_path)}) \cup {abspath(vtt_out)},
                   vtt_out |-> vtt_out, move |-> "done"]
        ELSE [raised |-> NoErr, vtts |-> vt, vtt_out |-> vtt_out, move |-> "skipped"]

\* the try/except around shutil.move
relocate(vt, vtt_path, move_fails) ==
    LET vtt_out == path_join(OUTPUT_DIR, basename(vtt_path))
    IN  IF abspath(vtt_path) # abspath(vtt_out)
        THEN IF move_fails
             THEN [raised |-> NoErr, vtts |-> vt, vtt_out |-> abspath(vtt_path),
                   move |-> "failed"]
             ELSE [raised |-> NoErr,
                   vtts |-> (vt \ {abspath(vtt_path)}) \cup {abspath(vtt_out)},
                   vtt_out |-> vtt_out, move |-> "done"]
        ELSE [raised |-> NoErr, vtts |-> vt, vtt_out |-> vtt_out, move |-> "skipped"]

\* What a call that raises leaves behind. Beside the exception and the disk,
\* for the properties: the normalized base name, the track file's path, the
\* cleaned lines if the run got that far, and the operation that failed.
Raised(e, fs, vt, base, vtt_path, cleaned, failed) ==
    [raised |-> e, ret |-> <<>>, files |-> fs, vtts |-> vt, base |-> base,
     vtt_path |-> vtt_path, cleaned |-> cleaned, failed |-> failed]

save_transcript(fs, vt, video_url_or_id, base_name, include_timestamps, env) ==
    LET base == normalize_base(base_name)
        dl == download_vtt(vt, video_url_or_id, env)
    IN
    IF dl.raised # NoErr
    THEN Raised(dl.raised, fs, dl.vtts, base, <<>>, <<>>, "fetch")
    ELSE IF env.fault = "parse"              \* webvtt.read(vtt_path) raises
    THEN Raised(MalformedFileError, fs, dl.vtts, base, dl.vtt_path, <<>>, "parse")
    ELSE
    LET parsed == vtt_to_lines(video_of(video_url_or_id).track, include_timestamps)
    IN
    IF parsed.raised # NoErr
    THEN Raised(parsed.raised, fs, dl.vtts, base, dl.vtt_path, <<>>, "empty")
    ELSE
    LET cleaned == clean_lines(parsed.lines)
        txt_path == txt_path_of(base)
        w1 == write_file(fs, txt_path, Join(cleaned, <<"\n">>),
                         env.fault = "txt_open", env.fault = "txt_write")
    IN
    IF w1.raised # NoErr
    THEN Raised(w1.raised, w1.files, dl.vtts, base, dl.vtt_path, cleaned, "txt")
    ELSE
    LET para_path == para_path_of(base)
        w2 == write_file(w1.files, para_path, paragraph(cleaned),
                         env.fault = "para_open", env.fault = "para_write")
    IN
    IF w2.raised # NoErr
    THEN Raised(w2.raised, w2.files, dl.vtts, base, dl.vtt_path, cleaned, "para")
    ELSE
    LET mv == relocate(dl.vtts, dl.vtt_path, env.fault = "move")
    IN
    IF mv.raised # NoErr
    THEN Raised(mv.raised, w2.files, mv.vtts, base, dl.vtt_path, cleaned, "move")
    ELSE [raised |-> NoErr,
          ret |-> <<abspath(txt_path), abspath(para_path), abspath(mv.vtt_out)>>,
          files |-> w2.files, vtts |-> mv.vtts, base |-> base,
          vtt_path |-> dl.vtt_path, cleaned |-> cleaned,
          failed |-> IF mv.move = "failed" THEN "move" ELSE "none"]

----------------------------------------------------------------------------
(* check_password and the login gate *)

None == "<None>"

MSG_NOT_CONFIGURED == "Server is not configured yet. Admin must set APP_PASSWORD in Secrets."

MSG_INCORRECT == "Incorrect password."

\* A gate that lets every run through.
check_password_open(auth, unlock, pw, required) ==
    [ret |-> TRUE, auth_ok |-> auth, rerun |-> FALSE, error |-> ""]

\* check_password(): its return value, session_state.auth_ok after it, whether
\* it ended the run by st.experimental_rerun(), and the st.error it showed
check_password(auth, unlock, pw, required) ==
    IF auth THEN [ret |-> TRUE, auth_ok |-> auth, rerun |-> FALSE, error |-> ""]
    ELSE IF unlock
    THEN IF required = None
         THEN [ret |-> FALSE, auth_ok |-> auth, rerun |-> FALSE, error |-> MSG_NOT_CONFIGURED]
         ELSE IF pw = required
         THEN [ret |-> FALSE, auth_ok |-> TRUE, rerun |-> TRUE, error |-> ""]
         ELSE [ret |-> FALSE, auth_ok |-> auth, rerun |-> FALSE, error |-> MSG_INCORRECT]
    ELSE [ret |-> FALSE, auth_ok |-> auth, rerun |-> FALSE, error |-> ""]

----------------------------------------------------------------------------
(* Run batch: one iteration of the for loop *)

\* The loop body with no try/except: the exception leaves the loop.
batch_item_unguarded(res, item, call) ==
    IF call.raised = NoErr
    THEN [results |-> Append(res, [item |-> item, status |-> "OK", error |-> "",
                                   txt_path |-> call.ret[1], para_path |-> call.ret[2]]),
          raised |-> NoErr]
    ELSE [results |-> res, raised |-> call.raised]

\* results.append((item, "OK", txt_path, para_path)), or
\* results.append((item, f"ERROR: {e}", "", "")) in the except branch
batch_item(res, item, call) ==
    IF call.raised = NoErr
    THEN [results |-> Append(res, [item |-> item, status |-> "OK", error |-> "",
                                   txt_path |-> call.ret[1], para_path |-> call.ret[2]]),
          raised |-> NoErr]
    ELSE [results |-> Append(res, [item |-> item, status |-> "ERROR",
                                   error |-> call.raised.msg,
                                   txt_path |-> <<>>, para_path |-> <<>>]),
          raised |-> NoErr]

----------------------------------------------------------------------------
(* Inputs of the cleaner *)

\* Lines as a caption track yields them: overlapping fragments, padded and
\* blank lines.
LinePool ==
    { <<"a", " ", "b">>,            \* "a b"
      <<"c">>,                      \* "c"
      <<"a", " ", "b", "c">>,       \* "a bc"  (contains "a b" and "c")
      <<"b">>,                      \* "b"     (a fragment of "a b")
      <<" ", "c", " ">>,            \* " c "   (trims to "c")
      <<" ">> }                     \* blank

RECURSIVE SeqsUpTo(_, _)
SeqsUpTo(S, n) ==
    IF n = 0 THEN {<<>>}
    ELSE LET shorter == SeqsUpTo(S, n - 1)
         IN  shorter \cup { Append(s, x) : s \in { t \in shorter : Len(t) = n - 1 }, x \in S }

----------------------------------------------------------------------------
(* Inputs of the application *)

\* The environments of one run: nothing fails, one operation fails, yt-dlp
\* leaves no subtitle file, or a second language beside English.
Envs ==
    { [fault |-> f, subs |-> "en"] : f \in Faults }
    \cup { [fault |-> "none", subs |-> s] : s \in {"none", "de_en"} }

\* the URL text input of the single form
UrlInputs == { <<" ">>, <<" ">> \o refE }

\* the base filename text input of the single form
BaseInputs ==
    { <<"t", "_", "p", "a", "r", "a", "g", "r", "a", "p", "h", "s">>,
      <<"d", "/", "t", ".", "m", "d", " ">>,       \* normalizes to "t"
      <<>> }                                        \* normalizes to "transcript"

\* the lines of the batch text area (batch_input.splitlines())
BatchLines == { refA, refE, refF \o <<" ">>, refBad, <<" ">> }

Passwords == {"hunter2", "guess"}

Buttons == {"", "Unlock", "Download transcript", "Run batch"}

\* the record of a save_transcript call: its arguments (base_name as
\* normalized) and its outcome
NoCall == [url |-> <<>>, base |-> <<>>, ts |-> FALSE, raised |-> NoErr, ret |-> <<>>,
           vtt_path |-> <<>>, cleaned |-> <<>>, failed |-> "none"]

CallRecord(url, ts, c) ==
    [url |-> url, base |-> c.base, ts |-> ts, raised |-> c.raised, ret |-> c.ret,
     vtt_path |-> c.vtt_path, cleaned |-> c.cleaned, failed |-> c.failed]

\* what the gate did in a script run: whether Unlock was pressed, the password
\* typed, whether the run went past the gate, and the st.error of the gate
RunRecord(unlock, pw, passed, error) ==
    [unlock |-> unlock, pw |-> pw, passed |-> passed, error |-> error]

----------------------------------------------------------------------------
(* The search panel of app_vibbli.py: operators *)

\* one item of yt_search's list (channel and duration are only displayed)
Hit(w) == [title |-> <<"T">> \o w.id, url |-> w.ref, id |-> w.id]

hitA == Hit(video_of(refA))

hitE == Hit(video_of(refE))

hitF == Hit(video_of(refF))

SearchError == [type |-> "DownloadError", msg |-> "search failed"]

\* yt_search(q, limit=k): a list of items, or an exception of yt-dlp
SearchOutcomes ==
    { [raised |-> NoErr, items |-> h] :
        h \in { <<>>, <<hitA>>, <<hitE>>, <<hitF>>, <<hitA, hitE>>, <<hitE, hitF>>,
                <<hitA, hitE, hitF>> } }
    \cup { [raised |-> SearchError, items |-> <<>>] }

\* def save_transcript(video_url_or_id, base_name, include_timestamps)
SAVE_TRANSCRIPT_PARAMS == {"video_url_or_id", "base_name", "include_timestamps"}

UnexpectedKeyword(k) == [type |-> "TypeError", msg |-> k]

UnpackError == [type |-> "ValueError", msg |-> "too many values to unpack"]

\* Python binds the keywords of a call to the parameters of the function
\* before its body runs: the first keyword that names no parameter raises.
bind_keywords(params, names) ==
    LET bad == { i \in 1..Len(names) : names[i] \notin params }
    IN  IF bad = {} THEN NoErr
        ELSE UnexpectedKeyword(names[CHOOSE i \in bad : \A j \in bad : i <= j])

\* save_transcript(r["url"], out_basename=base, timestamps=timestamps_for_selected)
call_save_transcript(fs, vt, r, base, ts, env) ==
    LET b == bind_keywords(SAVE_TRANSCRIPT_PARAMS, <<"out_basename", "timestamps">>)
    IN  IF b # NoErr
        THEN [entered |-> FALSE, c |-> Raised(b, fs, vt, <<>>, <<>>, <<>>, "none")]
        ELSE [entered |-> TRUE, c |-> save_transcript(fs, vt, r.url, base, ts, env)]

\* the except clause, or the statements after the call:
\* txt_path, para_path = <the three paths returned>
extract_report(r, ts, call) ==
    [files |-> call.c.files, vtts |-> call.c.vtts,
     entered |-> IF call.entered THEN <<CallRecord(r.url, ts, call.c)>> ELSE <<>>,
     msg |-> [kind |-> "error", title |-> r.title,
              err |-> IF call.c.raised # NoErr THEN call.c.raised ELSE UnpackError]]

\* the body of `for r in selected`: the try block and its except clause
extract_item(fs, vt, r, ts, env) ==
    extract_report(r, ts, call_save_transcript(fs, vt, r, r.id, ts, env))

extract_join(one, rest) ==
    [files |-> rest.files, vtts |-> rest.vtts,
     entered |-> one.entered \o rest.entered,
     msgs |-> <<one.msg>> \o rest.msgs]

RECURSIVE extract_loop(_, _, _, _, _)
extract_rest(one, sel, ts, env) ==
    extract_join(one, extract_loop(one.files, one.vtts, sel, ts, env))

extract_loop(fs, vt, sel, ts, env) ==
    IF sel = <<>> THEN [files |-> fs, vtts |-> vt, entered |-> <<>>, msgs |-> <<>>]
    ELSE extract_rest(extract_item(fs, vt, Head(sel), ts, env), Tail(sel), ts, env)

\* what a script run leaves: its lists, its reports and the files
panel_result(found, smsgs, sel, ex) ==
    [results |-> found, selected |-> sel, extract_shown |-> sel # <<>>,
     msgs |-> smsgs \o ex.msgs, files |-> ex.files, vtts |-> ex.vtts,
     entered |-> ex.entered]

\* the body of the expander in one script run: `search` and `extract` are the
\* values of the two st.button calls, `ticked` the values of the checkboxes
panel_run(ticked, search, outcome, extract, ts, fs, vt, env) ==
    LET found == IF search /\ outcome.raised = NoErr THEN outcome.items ELSE <<>>
        smsgs == IF ~search THEN <<>>
                 ELSE IF outcome.raised # NoErr
                      THEN << [kind |-> "error", title |-> <<>>, err |-> outcome.raised] >>
                 ELSE IF found = <<>>
                      THEN << [kind |-> "info", text |-> "No results."] >>
                      ELSE << [kind |-> "success", text |-> "Found", n |-> Len(found)] >>
        sel == SelectSeq(found, LAMBDA r : r.id \in ticked)
    IN  panel_result(found, smsgs, sel,
                     IF sel # <<>> /\ extract
                     THEN extract_loop(fs, vt, sel, ts, env)
                     ELSE [files |-> fs, vtts |-> vt, entered |-> <<>>, msgs |-> <<>>])

NoWidget == [kind |-> "none", id |-> <<>>, value |-> FALSE]

PanelInit ==
    /\ sel_state = {}
    /\ search_results = <<>>
    /\ selected = <<>>
    /\ extract_shown = FALSE
    /\ panel_msgs = <<>>
    /\ ui = NoWidget

----------------------------------------------------------------------------
(* The application: script runs of one session *)

AppInit ==
    /\ auth_ok = FALSE
    /\ secret \in {None, "hunter2"}
    /\ files = << >>
    /\ vtts = {}
    /\ pc = "idle"
    /\ entries = <<>>
    /\ idx = 1
    /\ batch_ts = FALSE
    /\ results = <<>>
    /\ calls = 0
    /\ last_call = NoCall
    /\ last_run = RunRecord(FALSE, "", FALSE, "")

\* A script run that ends at `if not check_password(): st.stop()` (or in the
\* rerun after a correct password), whatever was pressed.
GateStops ==
    /\ pc = "idle"
    /\ \E button \in Buttons, pw \in Passwords :
          LET g == check_password(auth_ok, button = "Unlock", pw, secret)
          IN  /\ ~g.ret
              /\ auth_ok' = g.auth_ok
              /\ last_run' = RunRecord(button = "Unlock", pw, FALSE, g.error)
    /\ UNCHANGED <<secret, files, vtts, pc, entries, idx, batch_ts, results,
                   calls, last_call>>
    /\ UNCHANGED <<cvars, svars>>

\* A script run that passes the gate with no button of the forms pressed.
ViewRun ==
    /\ pc = "idle"
    /\ LET g == check_password(auth_ok, FALSE, "", secret)
       IN  /\ g.ret
           /\ auth_ok' = g.auth_ok
           /\ last_run' = RunRecord(FALSE, "", TRUE, "")
    /\ UNCHANGED <<secret, files, vtts, pc, entries, idx, batch_ts, results,
                   calls, last_call>>
    /\ UNCHANGED <<cvars, svars>>

\* "Download transcript" with a blank URL
DownloadNoUrl ==
    /\ pc = "idle"
    /\ \E url \in UrlInputs :
          LET g == check_password(auth_ok, FALSE, "", secret)
          IN  /\ g.ret
              /\ strip(url) = <<>>
              /\ auth_ok' = g.auth_ok
              /\ last_run' = RunRecord(FALSE, "", TRUE, "")
    /\ UNCHANGED <<secret, files, vtts, pc, entries, idx, batch_ts, results,
                   calls, last_call>>
    /\ UNCHANGED <<cvars, svars>>

\* "Download transcript": save_transcript(url.strip(), base.strip(), timestamps)
\* inside try/except Exception
Download ==
    /\ pc = "idle"
    /\ calls < MaxCalls
    /\ check_password(auth_ok, FALSE, "", secret).ret
    /\ auth_ok' = check_password(auth_ok, FALSE, "", secret).auth_ok
    /\ \E url \in UrlInputs, base \in BaseInputs, timestamps \in BOOLEAN, env \in Envs :
          /\ strip(url) # <<>>
          /\ \E c \in {save_transcript(files, vtts, strip(url), strip(base), timestamps, env)} :
                /\ files' = c.files
                /\ vtts' = c.vtts
                /\ last_call' = CallRecord(strip(url), timestamps, c)
    /\ calls' = calls + 1
    /\ last_run' = RunRecord(FALSE, "", TRUE, "")
    /\ UNCHANGED <<secret, pc, entries, idx, batch_ts, results>>
    /\ UNCHANGED <<cvars, svars>>

\* "Run batch" with nothing but blank lines
BatchNoEntries ==
    /\ pc = "idle"
    /\ \E raw \in SeqsUpTo(BatchLines, MaxCalls - calls) :
          LET g == check_password(auth_ok, FALSE, "", secret)
          IN  /\ g.ret
              /\ StripNonBlank(raw) = <<>>
              /\ auth_ok' = g.auth_ok
              /\ last_run' = RunRecord(FALSE, "", TRUE, "")
    /\ UNCHANGED <<secret, files, vtts, pc, entries, idx, batch_ts, results,
                   calls, last_call>>
    /\ UNCHANGED <<cvars, svars>>

\* "Run batch": entries are read and the for loop is entered
BatchStart ==
    /\ pc = "idle"
    /\ \E raw \in SeqsUpTo(BatchLines, MaxCalls - calls), ts \in BOOLEAN :
          LET g == check_password(auth_ok, FALSE, "", secret)
          IN  /\ g.ret
              /\ StripNonBlank(raw) # <<>>
              /\ auth_ok' = g.auth_ok
              /\ entries' = StripNonBlank(raw)
              /\ batch_ts' = ts
    /\ idx' = 1
    /\ results' = <<>>
    /\ pc' = "batch"
    /\ last_run' = RunRecord(FALSE, "", TRUE, "")
    /\ UNCHANGED <<secret, files, vtts, calls, last_call>>
    /\ UNCHANGED <<cvars, svars>>

\* one iteration of `for item in entries`
BatchItem ==
    /\ pc = "batch"
    /\ idx <= Len(entries)
    /\ \E env \in Envs :
          \* Heuristic base name = last 11 chars (YouTube ID)
          \E c \in {save_transcript(files, vtts, entries[idx],
                                     LastN(entries[idx], VidLen), batch_ts, env)} :
          \E b \in {batch_item(results, entries[idx], c)} :
              /\ files' = c.files
              /\ vtts' = c.vtts
              /\ last_call' = CallRecord(entries[idx], batch_ts, c)
              /\ results' = b.results
              /\ IF b.raised = NoErr
                 THEN /\ idx' = idx + 1
                      /\ pc' = "batch"
                 ELSE \* the exception ends the script run
                      /\ idx' = idx
                      /\ pc' = "idle"
    /\ calls' = calls + 1
    /\ UNCHANGED <<auth_ok, secret, entries, batch_ts, last_run>>
    /\ UNCHANGED <<cvars, svars>>

\* the loop is over: the results are shown and the script run ends
BatchEnd ==
    /\ pc = "batch"
    /\ idx > Len(entries)
    /\ pc' = "idle"
    /\ UNCHANGED <<auth_ok, secret, files, vtts, entries, idx, batch_ts, results,
                   calls, last_call, last_run>>
    /\ UNCHANGED <<cvars, svars>>

Next ==
    \/ GateStops
    \/ ViewRun
    \/ DownloadNoUrl
    \/ Download
    \/ BatchNoEntries
    \/ BatchStart
    \/ BatchItem
    \/ BatchEnd

\* the cleaner's variables are not used by the application
Init ==
    /\ AppInit
    /\ PanelInit
    /\ in_lines = <<>>
    /\ out_lines = <<>>
    /\ out_twice = <<>>
    /\ cstage = "input"

Spec == Init /\ [][Next]_vars

----------------------------------------------------------------------------
(* The cleaner alone: clean_lines applied to every list of pool lines *)

CleanInit ==
    /\ in_lines \in SeqsUpTo(LinePool, MaxLines)
    /\ out_lines = <<>>
    /\ out_twice = <<>>
    /\ cstage = "input"
    /\ AppInit
    /\ PanelInit

\* cleaned = clean_lines(lines)
CleanOnce ==
    /\ cstage = "input"
    /\ out_lines' = clean_lines(in_lines)
    /\ cstage' = "cleaned"
    /\ UNCHANGED <<in_lines, out_twice>>
    /\ UNCHANGED <<pvars, svars>>

\* clean_lines applied to its own output
CleanAgain ==
    /\ cstage = "cleaned"
    /\ out_twice' = clean_lines(out_lines)
    /\ cstage' = "recleaned"
    /\ UNCHANGED <<in_lines, out_lines>>
    /\ UNCHANGED <<pvars, svars>>

CleanNext == CleanOnce \/ CleanAgain

SpecClean == CleanInit /\ [][CleanNext]_vars

----------------------------------------------------------------------------
(* The search panel of app_vibbli.py: script runs of one session *)

\* the environment of a script run in which no pipeline step fails
NoFault == [fault |-> "none", subs |-> "en"]

\* yt_search is not called in the run
NoSearch == [raised |-> NoErr, items |-> <<>>]

\* the ids whose checkbox a script run with these results renders
rendered(res) == { res[i].id : i \in 1..Len(res) }

\* Script runs of app_vibbli.py that go past the gate.  Each is started by
\* one widget, so at most one st.button call returns True in it.  A checkbox
\* the run does not render either keeps its value for a later run or loses
\* it, as the Streamlit release in use decides.

\* `if not check_password(): st.stop()` of app_vibbli.py
PanelGateStops ==
    /\ pc = "idle"
    /\ \E unlock \in BOOLEAN, pw \in Passwords :
          LET g == check_password(auth_ok, unlock, pw, secret)
          IN  /\ ~g.ret
              /\ auth_ok' = g.auth_ok
              /\ last_run' = RunRecord(unlock, pw, FALSE, g.error)
    /\ UNCHANGED <<secret, files, vtts, pc, entries, idx, batch_ts, results,
                   calls, last_call>>
    /\ UNCHANGED <<cvars, svars>>

\* The user presses "Search".
SearchRun ==
    /\ \E outcome \in SearchOutcomes :
        /\ pc = "idle"
        /\ check_password(auth_ok, FALSE, "", secret).ret
        /\ \E run \in {panel_run(sel_state, TRUE, outcome, FALSE, FALSE, files, vtts, NoFault)} :
              /\ search_results' = run.results
              /\ selected' = run.selected
              /\ extract_shown' = run.extract_shown
              /\ panel_msgs' = run.msgs
              /\ files' = run.files
              /\ vtts' = run.vtts
              /\ calls' = calls + Len(run.entered)
              /\ last_call' = IF run.entered = <<>> THEN last_call ELSE Last(run.entered)
              /\ \E keep \in BOOLEAN :
                    sel_state' = IF keep THEN sel_state ELSE sel_state \cap rendered(run.results)
        /\ ui' = [kind |-> "search", id |-> <<>>, value |-> FALSE]
        /\ last_run' = RunRecord(FALSE, "", TRUE, "")
        /\ UNCHANGED <<auth_ok, secret, pc, entries, idx, batch_ts, results>>
        /\ UNCHANGED cvars

\* the checkbox values after the user clicked the checkbox of `id`
toggle(ticked, id) == IF id \in ticked THEN ticked \ {id} ELSE ticked \cup {id}

\* The user ticks or unticks the checkbox of a result on the page.
TickRun ==
    /\ \E id \in rendered(search_results) :
        /\ pc = "idle"
        /\ check_password(auth_ok, FALSE, "", secret).ret
        /\ \E run \in {panel_run(toggle(sel_state, id), FALSE, NoSearch, FALSE, FALSE, files, vtts, NoFault)} :
              /\ search_results' = run.results
              /\ selected' = run.selected
              /\ extract_shown' = run.extract_shown
              /\ panel_msgs' = run.msgs
              /\ files' = run.files
              /\ vtts' = run.vtts
              /\ calls' = calls + Len(run.entered)
              /\ last_call' = IF run.entered = <<>> THEN last_call ELSE Last(run.entered)
              /\ \E keep \in BOOLEAN :
                    sel_state' = IF keep THEN toggle(sel_state, id) ELSE toggle(sel_state, id) \cap rendered(run.results)
        /\ ui' = [kind |-> "tick", id |-> id, value |-> id \notin sel_state]
        /\ last_run' = RunRecord(FALSE, "", TRUE, "")
        /\ UNCHANGED <<auth_ok, secret, pc, entries, idx, batch_ts, results>>
        /\ UNCHANGED cvars

\* The user presses "Extract transcripts for selected".
ExtractRun ==
    /\ extract_shown
    /\ \E ts \in BOOLEAN, env \in Envs :
        /\ pc = "idle"
        /\ check_password(auth_ok, FALSE, "", secret).ret
        /\ \E run \in {panel_run(sel_state, FALSE, NoSearch, TRUE, ts, files, vtts, env)} :
              /\ search_results' = run.results
              /\ selected' = run.selected
              /\ extract_shown' = run.extract_shown
              /\ panel_msgs' = run.msgs
              /\ files' = run.files
              /\ vtts' = run.vtts
              /\ calls' = calls + Len(run.entered)
              /\ last_call' = IF run.entered = <<>> THEN last_call ELSE Last(run.entered)
              /\ \E keep \in BOOLEAN :
                    sel_state' = IF keep THEN sel_state ELSE sel_state \cap rendered(run.results)
        /\ ui' = [kind |-> "extract", id |-> <<>>, value |-> ts]
        /\ last_run' = RunRecord(FALSE, "", TRUE, "")
        /\ UNCHANGED <<auth_ok, secret, pc, entries, idx, batch_ts, results>>
        /\ UNCHANGED cvars

PanelNext ==
    \/ PanelGateStops
    \/ SearchRun
    \/ TickRun
    \/ ExtractRun

SpecPanel == Init /\ [][PanelNext]_vars

----------------------------------------------------------------------------
(* Properties of clean_lines, checked under SpecClean *)

\* the three lines of the cleaner's hard case: "a b", "c", "a bc"
sAB == <<"a", " ", "b">>

sC == <<"c">>

sABC == <<"a", " ", "b", "c">>

Related(x, y) == x = y \/ Contains(x, y) \/ Contains(y, x)

\* C1: in the output of clean_lines no two neighbouring lines are equal and
\* neither of them is a substring of the other, also next to a line that a
\* replacement step put there.
C1_AdjacencyInvariant ==
    cstage # "input" =>
        \A i \in 1..(Len(out_lines) - 1) : ~Related(out_lines[i], out_lines[i + 1])

\* C2: clean_lines is idempotent: cleaning its own output changes nothing.
C2_Idempotent ==
    cstage = "recleaned" => out_twice = out_lines

\* [ln.strip() for ln in lines], blank lines kept, for comparison only
StripAll(lines) == [i \in 1..Len(lines) |-> strip(lines[i])]

\* a is b with some entries left out, the others in b's order
RECURSIVE IsSubseq(_, _)
IsSubseq(a, b) ==
    IF a = <<>> THEN TRUE
    ELSE IF b = <<>> THEN FALSE
    ELSE IF Head(a) = Head(b) THEN IsSubseq(Tail(a), Tail(b))
    ELSE IsSubseq(a, Tail(b))

\* C3: the output of clean_lines is an order-preserving selection of the
\* trimmed input lines (a subsequence of them), never longer than the input.
C3_OrderPreservingSelection ==
    cstage # "input" =>
        /\ IsSubseq(out_lines, StripAll(in_lines))
        /\ Len(out_lines) <= Len(in_lines)

\* C3 witness: a padded line is trimmed and a longer line replaces the last
\* accumulated one; the result keeps the input order.
C3_Witness ==
    /\ cstage = "cleaned"
    /\ in_lines = << <<" ", "c", " ">>, sAB, sABC >>
    /\ out_lines = << sC, sABC >>

\* C9: pass 2 compares a candidate with the last accumulated line only: a
\* candidate unrelated to that line is appended whatever the earlier
\* accumulated lines are, and ["a b", "c", "a b"] is returned unchanged.
C9_BoundedLookback ==
    cstage # "input" =>
        LET xs == exact(in_lines)
        IN  /\ \A k \in 1..Len(xs) :
                  LET acc == pass2(SubSeq(xs, 1, k - 1))
                      cur == xs[k]
                  IN  (acc # <<>> /\ ~Related(cur, Last(acc)))
                          => pass2(SubSeq(xs, 1, k)) = Append(acc, cur)
            /\ (in_lines = <<sAB, sC, sAB>> => out_lines = <<sAB, sC, sAB>>)

\* C9 witness: the third line equals the first accumulated line and is kept.
C9_Witness ==
    /\ cstage = "cleaned"
    /\ in_lines = <<sAB, sC, sAB>>
    /\ out_lines = <<sAB, sC, sAB>>

----------------------------------------------------------------------------
(* Properties of the application, checked under Spec *)

\* the content of the file at path p, as a list of at most one content
FileAt(fs, p) == IF p \in DOMAIN fs THEN <<fs[p]>> ELSE <<>>

\* a step that is one save_transcript call
IsCall == calls' = calls + 1

\* C4: the batch loop gives every reference exactly one result, in input
\* order: an error record with the error's description iff save_transcript
\* raised for it, else an OK record with both paths non-empty; a failure does
\* not stop the loop, which ends with one result per reference.
C4_BatchIsolation ==
    /\ pc = "batch" => Len(results) = idx - 1
    /\ pc = "idle" => Len(results) = Len(entries)
    /\ Len(results) <= Len(entries)
    /\ \A i \in 1..Len(results) :
          /\ results[i].item = entries[i]
          /\ results[i].status \in {"OK", "ERROR"}
          /\ results[i].status = "OK" =>
                /\ results[i].txt_path = abspath(txt_path_of(normalize_base(LastN(entries[i], VidLen))))
                /\ results[i].para_path = abspath(para_path_of(normalize_base(LastN(entries[i], VidLen))))
                /\ results[i].txt_path # <<>> /\ results[i].para_path # <<>>
          /\ results[i].status = "ERROR" =>
                /\ results[i].error # ""
                /\ results[i].txt_path = <<>> /\ results[i].para_path = <<>>
    /\ (pc = "batch" /\ idx > 1) =>
          /\ last_call.url = entries[idx - 1]
          /\ results[idx - 1].status = "ERROR" <=> last_call.raised # NoErr
          /\ results[idx - 1].status = "ERROR" => results[idx - 1].error = last_call.raised.msg

\* C4 witness: a finished batch whose first reference failed and whose second
\* one was processed and succeeded.
C4_Witness ==
    /\ pc = "idle"
    /\ Len(entries) = 2
    /\ Len(results) = 2
    /\ results[1].status = "ERROR"
    /\ results[2].status = "OK"

AllBlank(track) == \A i \in 1..Len(track) : strip(track[i].text) = <<>>

\* C5: a run whose track is fetched and parsed and holds only blank cues ends
\* with the empty-transcript error of vtt_to_lines and writes no file; a run
\* that gets to writing <base>.txt writes a transcript with a non-empty line.
C5_EmptyTranscript ==
    [][ IsCall =>
          /\ (/\ last_call'.failed \notin {"fetch", "parse"}
              /\ AllBlank(video_of(last_call'.url).track))
                => (last_call'.raised = EmptyError /\ files' = files)
          /\ last_call'.failed \in {"none", "move", "txt", "para"} =>
                /\ \E i \in 1..Len(last_call'.cleaned) : strip(last_call'.cleaned[i]) # <<>>
                /\ last_call'.failed # "txt" =>
                      FileAt(files', txt_path_of(last_call'.base))
                          = << Join(last_call'.cleaned, <<"\n">>) >>
      ]_vars

\* C5 witness: the blank track's run raised the error in a batch where an
\* earlier run had written the files of the same base name.
C5_Witness ==
    /\ last_call.url = refF
    /\ last_call.raised = EmptyError
    /\ txt_path_of(last_call.base) \in DOMAIN files
    /\ para_path_of(last_call.base) \in DOMAIN files

\* [s for s in (strip_timestamps(ln) for ln in cleaned) if s]
RECURSIVE StrippedNonEmpty(_)
StrippedNonEmpty(cleaned) ==
    IF cleaned = <<>> THEN <<>>
    ELSE IF strip_timestamps(Head(cleaned)) = <<>> THEN StrippedNonEmpty(Tail(cleaned))
    ELSE <<strip_timestamps(Head(cleaned))>> \o StrippedNonEmpty(Tail(cleaned))

\* C6: the paragraph written is the single-space join of exactly the lines
\* that are non-empty after the timestamp marker is removed and the rest
\* trimmed: a line that becomes empty contributes nothing, so the paragraph
\* has no doubled, leading or trailing space.
C6_ParagraphReduction ==
    (calls > 0 /\ last_call.raised = NoErr) =>
        LET para == files[para_path_of(last_call.base)]
        IN  /\ para = Join(StrippedNonEmpty(last_call.cleaned), <<" ">>)
            /\ ~Contains(para, <<" ", " ">>)
            /\ para # <<>> => (Head(para) # " " /\ Last(para) # " ")

\* C7: a failed move of the track file does not fail the run: it returns the
\* two written files' paths and the track's original location. Every other
\* failure propagates, so a run that returns has written both files.
C7_BestEffortRelocation ==
    /\ last_call.failed = "move" =>
          /\ last_call.raised = NoErr
          /\ last_call.ret = << abspath(txt_path_of(last_call.base)),
                                abspath(para_path_of(last_call.base)),
                                abspath(last_call.vtt_path) >>
          /\ abspath(last_call.vtt_path) \in vtts
    /\ last_call.failed \in {"fetch", "parse", "empty", "txt", "para"} =>
          (last_call.raised # NoErr /\ last_call.ret = <<>>)
    /\ (calls > 0 /\ last_call.raised = NoErr) =>
          /\ video_of(last_call.url) # NoVideo
          /\ FileAt(files, txt_path_of(last_call.base)) = << Join(last_call.cleaned, <<"\n">>) >>
          /\ FileAt(files, para_path_of(last_call.base)) = << paragraph(last_call.cleaned) >>
          /\ last_call.ret[3] \in vtts

\* C7 witness: the move failed and the run returned the original location.
C7_Witness ==
    /\ last_call.failed = "move"
    /\ last_call.raised = NoErr
    /\ last_call.ret[3] = abspath(last_call.vtt_path)
    /\ last_call.ret[3] # path_join(OUTPUT_DIR, basename(last_call.vtt_path))

\* C8: the auth flag starts unset; it becomes set only in a run where Unlock
\* is pressed, a secret is configured and the password typed equals it; once
\* set it stays set; a run that starts with the flag unset stops before any
\* pipeline or batch action; and a missing secret leaves the flag unset with
\* an error other than the wrong-password one.
C8_PasswordGate ==
    /\ [] (calls = 0 /\ ~last_run.unlock /\ ~last_run.passed => ~auth_ok)
    /\ [][ (~auth_ok /\ auth_ok') =>
              (last_run'.unlock /\ secret # None /\ last_run'.pw = secret) ]_vars
    /\ [][ auth_ok => auth_ok' ]_vars
    /\ [][ ~auth_ok =>
              /\ UNCHANGED <<files, vtts, pc, entries, idx, batch_ts, results, calls, last_call>>
              /\ ~last_run'.passed ]_vars
    /\ [] (secret = None => ~auth_ok)
    /\ [] ((last_run.unlock /\ ~last_run.passed /\ secret = None)
              => last_run.error = MSG_NOT_CONFIGURED)
    /\ [] ((last_run.unlock /\ ~last_run.passed /\ secret # None /\ last_run.pw # secret)
              => (last_run.error = MSG_INCORRECT /\ ~auth_ok))
    /\ [] (MSG_NOT_CONFIGURED # MSG_INCORRECT)

\* C8 witness: the run that unlocked the session.
C8_Witness ==
    /\ auth_ok
    /\ last_run.unlock
    /\ last_run.pw = secret
    /\ ~last_run.passed

\* the base names the forms can produce
BaseNames ==
    { normalize_base(strip(b)) : b \in BaseInputs }
    \cup { normalize_base(LastN(e, VidLen)) : e \in { strip(l) : l \in BatchLines } \ {<<>>} }

\* C10: a successful run with base name b leaves the transcript files of
\* every other base name unchanged; two references of one batch with the same
\* last 11 characters that both succeed are reported OK with identical paths,
\* and the files hold the transcript of the later run.
C10_FilesKeyedByBase ==
    /\ [][ (IsCall /\ last_call'.raised = NoErr) =>
              \A b \in BaseNames \ {last_call'.base} :
                  /\ FileAt(files', txt_path_of(b)) = FileAt(files, txt_path_of(b))
                  /\ FileAt(files', para_path_of(b)) = FileAt(files, para_path_of(b)) ]_vars
    /\ [] (\A i, j \in 1..Len(results) :
              (/\ results[i].status = "OK" /\ results[j].status = "OK"
               /\ LastN(entries[i], VidLen) = LastN(entries[j], VidLen))
                  => (/\ results[i].txt_path = results[j].txt_path
                      /\ results[i].para_path = results[j].para_path))
    /\ [] ((calls > 0 /\ last_call.raised = NoErr) =>
              FileAt(files, txt_path_of(last_call.base)) = << Join(last_call.cleaned, <<"\n">>) >>)

\* C11: deduplication acts on the lines as vtt_to_lines produced them.  For a
\* track with two consecutive cues of identical text whose start times fall
\* in different seconds, a successful call with include_timestamps keeps both
\* prefixed lines (equal length, different) next to each other in the cleaned
\* list and the paragraph file holds the text twice in a row; the same call
\* without include_timestamps keeps no adjacent pair of that text, and its
\* paragraph file differs from the one written with include_timestamps.
cue_text(cue) == replace(strip(cue.text), "\n", " ")

cue_second(cue) == split_first(cue.start, ".")

prefixed(cue) == <<"[">> \o cue_second(cue) \o <<"]", " ">> \o cue_text(cue)

RepeatedCues(track) ==
    { i \in 1..(Len(track) - 1) :
        /\ cue_text(track[i]) # <<>>
        /\ cue_text(track[i]) = cue_text(track[i + 1])
        /\ cue_second(track[i]) # cue_second(track[i + 1]) }

AdjacentIn(lines, a, b) ==
    \E k \in 1..(Len(lines) - 1) : lines[k] = a /\ lines[k + 1] = b

Saved(r) ==
    [kind |-> "success", text |-> "Saved",
     txt |-> basename(txt_path_of(normalize_base(r.id))),
     para |-> basename(para_path_of(normalize_base(r.id)))]

TickedAfterSearch ==
    /\ search_results # <<>>
    /\ ui'.kind = "tick"
    /\ ui'.value

SelectionFollowsTick ==
    TickedAfterSearch =>
        /\ \E i \in 1..Len(selected') : selected'[i].id = ui'.id
        /\ extract_shown'

ExtractSavesSelected ==
    (extract_shown /\ ui'.kind = "extract") =>
        /\ calls' = calls + Len(selected)
        /\ Len(panel_msgs') = Len(selected)
        /\ \A i \in 1..Len(selected) :
              \E env \in Envs :
                 LET r == selected[i]
                     c == save_transcript(files, vtts, r.url, r.id, ui'.value, env)
                 IN  panel_msgs'[i] =
                        IF c.raised = NoErr THEN Saved(r)
                        ELSE [kind |-> "error", title |-> r.title, err |-> c.raised]

C12_SearchSelectExtract ==
    /\ [][SelectionFollowsTick]_vars
    /\ [][ExtractSavesSelected]_vars

====
